---- MODULE Spec2Model ----
(***************************************************************************)
(* A model of scripts/benchmarks_plotter.py: the BenchmarksReport accessor *)
(* over a parsed JSON report, the two chart renderers runtime_plot and     *)
(* scenarios_average_runtime_plot, and the helpers as_time_unit and        *)
(* round_up_to.                                                            *)
(*                                                                         *)
(* Representation of Python values:                                        *)
(*   str    a sequence of one-character strings, compared by code point;   *)
(*   float  an exact fraction [num, den] in lowest terms wherever the      *)
(*          statement is about which values are combined; the section on   *)
(*          binary64 computes as_time_unit bit by bit as IEEE-754 does,    *)
(*          for the statement about its rounding error;                    *)
(*   dict   a sequence of [key, value] items in insertion order;           *)
(*   list   a sequence; a list object the renderer may sort in place also  *)
(*          carries the identity of the object it is (obj);                *)
(*   the int id n is <<"int", n>>, the JSON key str(n) is <<"str", n>>.    *)
(***************************************************************************)
EXTENDS Integers, Sequences, FiniteSets, TLC

VARIABLES
    _data,      \* BenchmarksReport._data: the parsed JSON mapping
    _names,     \* BenchmarksReport._names
    _modes,     \* BenchmarksReport._modes
    loaded,     \* history: the report fields as they were after construction
    pc,         \* "idle", the renderer loop the program is in, or "terminated"
                \* once an exception has propagated out of a call
    op,         \* the last operation called: [name, args]
    ret,        \* its outcome: [status, value]
    frame,      \* the local variables of the renderer in progress
    ax          \* what the renderer has drawn on its axes

vars == <<_data, _names, _modes, loaded, pc, op, ret, frame, ax>>

(***************************************************************************)
(* Bounds of the model.                                                    *)
(***************************************************************************)
MaxNameParts == 3     \* a stored name is at most this many name parts
MaxBenchmarks == 3    \* records in a report
MaxStats == 3         \* entries in one scenariosStatistics list
MaxRoundArg == 84     \* round_up_to is tried on k/4 for k in 0..MaxRoundArg
MaxNano == 255        \* as_time_unit is tried on k * s for k in 0..MaxNano

(***************************************************************************)
(* Python str.                                                             *)
(***************************************************************************)
Ord(c) ==
    CASE c = "B" -> 66 [] c = "F" -> 70 [] c = "a" -> 97
      [] c = "c" -> 99 [] c = "e" -> 101 [] c = "h" -> 104 [] c = "k" -> 107
      [] c = "m" -> 109 [] c = "n" -> 110 [] c = "o" -> 111 [] c = "r" -> 114

RECURSIVE str_lt(_, _)
str_lt(a, b) ==
    IF b = <<>> THEN FALSE
    ELSE IF a = <<>> THEN TRUE
    ELSE IF Ord(Head(a)) # Ord(Head(b)) THEN Ord(Head(a)) < Ord(Head(b))
    ELSE str_lt(Tail(a), Tail(b))

startswith(s, prefix) ==
    /\ Len(prefix) <= Len(s)
    /\ SubSeq(s, 1, Len(prefix)) = prefix

\* str.replace(old, new): left to right, non-overlapping, every occurrence
RECURSIVE str_replace(_, _, _)
str_replace(s, old, new) ==
    IF s = <<>> THEN <<>>
    ELSE IF startswith(s, old)
         THEN new \o str_replace(SubSeq(s, Len(old) + 1, Len(s)), old, new)
         ELSE <<Head(s)>> \o str_replace(Tail(s), old, new)

Benchmark == <<"B", "e", "n", "c", "h", "m", "a", "r", "k">>

\* str(x) of an int id or of a key that is a string already
str(x) == <<"str", x[2]>>

(***************************************************************************)
(* Python float, as exact fractions.                                       *)
(***************************************************************************)
RECURSIVE GCD(_, _)
GCD(a, b) == IF b = 0 THEN a ELSE GCD(b, a % b)

float(n) == [num |-> n, den |-> 1]

\* x / k for a float x and a positive int k
truediv(x, k) ==
    LET g == GCD(x.num, k)
    IN  [num |-> x.num \div g, den |-> x.den * (k \div g)]

float_lt(x, y) == x.num * y.den < y.num * x.den

\* math.ceil of a non-negative float
ceil(x) == (x.num + x.den - 1) \div x.den

norm(n, d) == LET g == GCD(n, d) IN [num |-> n \div g, den |-> d \div g]

float_add(x, y) == norm(x.num * y.den + y.num * x.den, x.den * y.den)

float_mul(x, k) == norm(x.num * k, x.den)

(***************************************************************************)
(* TimeUnit, as_time_unit, round_up_to.                                    *)
(***************************************************************************)
NANO == 1
MICRO == 1000
MILLI == 1000000
SEC == 1000000000

TimeUnit == {NANO, MICRO, MILLI, SEC}

\* float(nano_time) / unit.value; nano_time arrives as a float: the caller
\* holding an int passes float(n), and float() of a float is that float
as_time_unit(nano_time, unit) == truediv(nano_time, unit)

\* rounding down: math.floor in place of math.ceil
round_down_to(n, multiplier) ==
    (truediv(n, multiplier).num \div truediv(n, multiplier).den) * multiplier

round_up_to(n, multiplier) == ceil(truediv(n, multiplier)) * multiplier

(***************************************************************************)
(* Python float as the interpreter computes it: IEEE-754 binary64, every   *)
(* operation rounded to nearest, ties to even.  A positive float is        *)
(* [sig, exp]: sig the 53 bits of its significand, the most significant    *)
(* (a 1) first, and exp the exponent of the last bit, so that its value    *)
(* is sig * 2^exp; zero has no bits.  The values here are an int below     *)
(* 2^31, its quotient by a unit and the product of that by the unit: all   *)
(* are normal numbers, none overflows.                                     *)
(***************************************************************************)
Precision == 53

\* the binary digits of the int n, the most significant first
RECURSIVE bits(_)
bits(n) == IF n = 0 THEN <<>> ELSE Append(bits(n \div 2), n % 2)

\* the int whose binary digits are bs
RECURSIVE int_of(_)
int_of(bs) ==
    IF bs = <<>> THEN 0 ELSE 2 * int_of(SubSeq(bs, 1, Len(bs) - 1)) + bs[Len(bs)]

zeros(k) == [i \in 1..k |-> 0]

\* bs without its leading zeros
lstrip(bs) ==
    IF \A i \in DOMAIN bs : bs[i] = 0 THEN <<>>
    ELSE LET k == CHOOSE j \in DOMAIN bs : bs[j] = 1 /\ \A i \in 1..(j - 1) : bs[i] = 0
         IN  SubSeq(bs, k, Len(bs))

\* the digits of m + 1 (one digit longer when m is all ones)
successor(m) ==
    IF \A i \in DOMAIN m : m[i] = 1 THEN <<1>> \o zeros(Len(m))
    ELSE LET k == CHOOSE j \in DOMAIN m :
                      m[j] = 0 /\ \A i \in (j + 1)..Len(m) : m[i] = 1
         IN  [i \in DOMAIN m |-> IF i < k THEN m[i] ELSE IF i = k THEN 1 ELSE 0]

\* the float nearest to the number whose digits are bs (no leading zero), the
\* last of exponent e, followed by more nonzero digits iff sticky
round_half_even(bs, sticky, e) ==
    IF bs = <<>> THEN [sig |-> <<>>, exp |-> 0]
    ELSE IF Len(bs) <= Precision
    THEN [sig |-> bs \o zeros(Precision - Len(bs)), exp |-> e - (Precision - Len(bs))]
    ELSE LET m == SubSeq(bs, 1, Precision)
             rest == SubSeq(bs, Precision + 1, Len(bs))
             more == sticky \/ \E i \in 2..Len(rest) : rest[i] = 1
             up == rest[1] = 1 /\ (more \/ m[Precision] = 1)
             s == successor(m)
         IN  IF ~up THEN [sig |-> m, exp |-> e + Len(rest)]
             ELSE [sig |-> SubSeq(s, 1, Precision),
                   exp |-> e + Len(rest) + Len(s) - Precision]

\* float(n) of an int
binary64(n) == round_half_even(bits(n), FALSE, 0)

\* long division by the int u, carried on from the remainder r over the digits
\* bs: the quotient digits q it adds and the remainder r it leaves (the digits
\* are taken in order, first those of the first half, then those of the second)
RECURSIVE divmod_bits(_, _, _)
divmod_bits(bs, u, r) ==
    IF bs = <<>> THEN [q |-> <<>>, r |-> r]
    ELSE IF Len(bs) = 1
    THEN LET t == 2 * r + bs[1]
         IN  IF t >= u THEN [q |-> <<1>>, r |-> t - u] ELSE [q |-> <<0>>, r |-> t]
    ELSE LET h == Len(bs) \div 2
             a == divmod_bits(SubSeq(bs, 1, h), u, r)
             b == divmod_bits(SubSeq(bs, h + 1, Len(bs)), u, a.r)
         IN  [q |-> a.q \o b.q, r |-> b.r]

\* x / u for a float x and an int u that a float holds exactly: the quotient is
\* developed to more than Precision + 1 digits and rounded once
binary64_truediv(x, u) ==
    IF x.sig = <<>> THEN x
    ELSE LET more == Len(bits(u)) + 2
             d == divmod_bits(x.sig \o zeros(more), u, 0)
         IN  round_half_even(lstrip(d.q), d.r # 0, x.exp - more)

reversed(bs) == [i \in DOMAIN bs |-> bs[Len(bs) + 1 - i]]

\* multiplication by the int u, carried on from the carry a over the digits m,
\* the least significant first: the digits p of the product it adds, the least
\* significant first, and the carry a it leaves above them
RECURSIVE mul_bits(_, _, _)
mul_bits(m, u, a) ==
    IF m = <<>> THEN [p |-> <<>>, a |-> a]
    ELSE IF Len(m) = 1
    THEN LET t == a + m[1] * u
         IN  [p |-> <<t % 2>>, a |-> t \div 2]
    ELSE LET h == Len(m) \div 2
             lo == mul_bits(SubSeq(m, 1, h), u, a)
             hi == mul_bits(SubSeq(m, h + 1, Len(m)), u, lo.a)
         IN  [p |-> lo.p \o hi.p, a |-> hi.a]

\* x * u for a float x and an int u that a float holds exactly: the product is
\* developed in full and rounded once
binary64_mul(x, u) ==
    IF x.sig = <<>> THEN x
    ELSE LET m == mul_bits(reversed(x.sig), u, 0)
         IN  round_half_even(lstrip(bits(m.a) \o reversed(m.p)), FALSE, x.exp)

\* as_time_unit with floor division in place of true division
as_time_unit_floordiv(nano_time, unit) == binary64(nano_time \div unit)

\* as_time_unit(nano_time, unit) in binary64
as_time_unit_binary64(nano_time, unit) ==
    binary64_truediv(binary64(nano_time), unit)

(***************************************************************************)
(* Python built-ins on collections.                                        *)
(***************************************************************************)
set(l) == {l[i] : i \in DOMAIN l}

\* sorted(S) of a set of str
RECURSIVE sorted(_)
sorted(S) ==
    IF S = {} THEN <<>>
    ELSE LET m == CHOOSE x \in S : \A y \in S \ {x} : str_lt(x, y)
         IN  <<m>> \o sorted(S \ {m})

\* (threads, operations) tuples compare lexicographically
tuple_lt(p, q) == p[1] < q[1] \/ (p[1] = q[1] /\ p[2] < q[2])

\* list.sort(key=itemgetter("params")): stable, ascending
RECURSIVE insert_by_params(_, _)
insert_by_params(l, e) ==
    IF l = <<>> THEN <<e>>
    ELSE IF tuple_lt(e.params, l[Len(l)].params)
         THEN Append(insert_by_params(SubSeq(l, 1, Len(l) - 1), e), l[Len(l)])
         ELSE Append(l, e)

RECURSIVE sort_by_params(_)
sort_by_params(l) ==
    IF l = <<>> THEN <<>>
    ELSE insert_by_params(sort_by_params(SubSeq(l, 1, Len(l) - 1)), l[Len(l)])

\* a grouping that never merges: every item is a group of its own
groupby_each(items, keys) ==
    [i \in DOMAIN items |-> [key |-> keys[i], group |-> <<items[i]>>]]

\* itertools.groupby(items, key): one group per maximal run of consecutive
\* items with equal key; keys[i] is key(items[i])
RECURSIVE groupby(_, _)
groupby(items, keys) ==
    IF items = <<>> THEN <<>>
    ELSE LET rest == groupby(Tail(items), Tail(keys))
         IN  IF rest # <<>> /\ rest[1].key = Head(keys)
             THEN <<[key |-> Head(keys), group |-> <<Head(items)>> \o rest[1].group]>>
                  \o Tail(rest)
             ELSE <<[key |-> Head(keys), group |-> <<Head(items)>>]>> \o rest

\* np.sum of a list of ints
RECURSIVE np_sum(_)
np_sum(l) == IF l = <<>> THEN 0 ELSE Head(l) + np_sum(Tail(l))

\* max of a non-empty list of floats
RECURSIVE max(_)
max(l) ==
    IF Len(l) = 1 THEN l[1]
    ELSE LET m == max(Tail(l)) IN IF float_lt(l[1], m) THEN m ELSE l[1]

np_arange(n) == [i \in 1..n |-> i - 1]

\* dict: items in insertion order
dict_has(d, k) == \E i \in DOMAIN d : d[i].key = k

dict_get(d, k) == d[CHOOSE i \in DOMAIN d : d[i].key = k].value

dict_set(d, k, v) ==
    IF dict_has(d, k)
    THEN [i \in DOMAIN d |-> IF d[i].key = k THEN [key |-> k, value |-> v] ELSE d[i]]
    ELSE Append(d, [key |-> k, value |-> v])

dict_keys(d) == [i \in DOMAIN d |-> d[i].key]

dict_values(d) == [i \in DOMAIN d |-> d[i].value]

\* outcomes of a call
Ok(v) == [status |-> "ok", value |-> v]
Raise(e) == [status |-> e, value |-> <<>>]

(***************************************************************************)
(* class BenchmarksReport.  self is the record [_data, _names, _modes].    *)
(***************************************************************************)
benchmark_ids(self) == dict_keys(self._data)

benchmarks_names(self) == self._names

benchmarks_modes(self) == self._modes

benchmark_name(self, bid) ==
    str_replace(dict_get(self._data, str(bid)).name, Benchmark, <<>>)

benchmark_mode(self, bid) ==
    dict_get(self._data, str(bid)).mode

\* a lookup that falls back to a default, as next(..., None) would
benchmark_id_default(self, name, mode) ==
    LET values == dict_values(self._data)
        hits == {i \in DOMAIN values :
                    /\ values[i].name = name \o Benchmark
                    /\ values[i].mode = mode}
    IN  IF hits = {} THEN Ok(<<"int", 0>>)
        ELSE Ok(values[CHOOSE i \in hits : \A j \in hits : i <= j].id)

\* next(...) of the generator over self._data.values(): the id of the first
\* match, StopIteration when the generator is exhausted
benchmark_id(self, name, mode) ==
    LET values == dict_values(self._data)
        hits == {i \in DOMAIN values :
                    /\ values[i].name = name \o Benchmark
                    /\ values[i].mode = mode}
    IN  IF hits = {} THEN Raise("StopIteration")
        ELSE Ok(values[CHOOSE i \in hits : \A j \in hits : i <= j].id)

benchmark_scenarios_stats(self, bid) ==
    dict_get(self._data, str(bid)).scenariosStatistics

benchmark_runtime(self, bid, unit) ==
    as_time_unit(float(dict_get(self._data, str(bid)).runningTimeNano), unit)

benchmarks_runtime(self, unit) ==
    LET ids == benchmark_ids(self)
    IN  [i \in DOMAIN ids |->
            [key |-> ids[i], value |-> benchmark_runtime(self, ids[i], unit)]]

\* the loop of benchmarks_runtime_with_mode over the ids from position i on
RECURSIVE benchmarks_runtime_with_mode_loop(_, _, _, _, _)
benchmarks_runtime_with_mode_loop(self, mode, unit, i, result) ==
    LET ids == benchmark_ids(self)
    IN  IF i > Len(ids) THEN result
        ELSE IF benchmark_mode(self, ids[i]) # mode
             THEN benchmarks_runtime_with_mode_loop(self, mode, unit, i + 1, result)
             ELSE benchmarks_runtime_with_mode_loop(self, mode, unit, i + 1,
                      dict_set(result, benchmark_name(self, ids[i]),
                               benchmark_runtime(self, ids[i], unit)))

benchmarks_runtime_with_mode(self, mode, unit) ==
    benchmarks_runtime_with_mode_loop(self, mode, unit, 1, <<>>)

\* an average per iteration: the runtime divided by the number of entries of the
\* group instead of by their invocations
benchmark_average_runtime_by_iterations(self, bid, unit) ==
    LET stats == dict_get(self._data, str(bid)).scenariosStatistics
        groups == groupby(stats,
                     [i \in DOMAIN stats |-> <<stats[i].threads, stats[i].operations>>])
        entry(g) ==
            LET runtime == np_sum([i \in DOMAIN g.group |-> g.group[i].runningTimeNano])
            IN  [params |-> g.key,
                 avg_runtime |-> as_time_unit(truediv(float(runtime), Len(g.group)), unit)]
    IN  [obj |-> <<"list", "result">>,
         items |-> [k \in DOMAIN groups |-> entry(groups[k])]]

\* a result built in the stored list: the list returned is the very object held
\* under scenariosStatistics, not a new one
benchmark_average_runtime_in_place(self, bid, unit) ==
    LET stats == dict_get(self._data, str(bid)).scenariosStatistics
        groups == groupby(stats,
                     [i \in DOMAIN stats |-> <<stats[i].threads, stats[i].operations>>])
        entry(g) ==
            LET runtime == np_sum([i \in DOMAIN g.group |-> g.group[i].runningTimeNano])
                invocations == np_sum([i \in DOMAIN g.group |-> g.group[i].invocationsCount])
            IN  [params |-> g.key,
                 avg_runtime |-> as_time_unit(truediv(float(runtime), invocations), unit)]
    IN  [obj |-> <<"scenariosStatistics", str(bid)>>,
         items |-> [k \in DOMAIN groups |-> entry(groups[k])]]

\* the list object a call returns: result = list() is a new object, filled with
\* one {"params", "avg_runtime"} dict per group of groupby
benchmark_average_runtime_by_scenario_params(self, bid, unit) ==
    LET stats == benchmark_scenarios_stats(self, bid)
        groups == groupby(stats,
                     [i \in DOMAIN stats |-> <<stats[i].threads, stats[i].operations>>])
        entry(g) ==
            LET runtime == np_sum([i \in DOMAIN g.group |-> g.group[i].runningTimeNano])
                invocations == np_sum([i \in DOMAIN g.group |-> g.group[i].invocationsCount])
                avg_runtime == as_time_unit(truediv(float(runtime), invocations), unit)
            IN  [params |-> g.key, avg_runtime |-> avg_runtime]
    IN  [obj |-> <<"list", "result">>,
         items |-> [k \in DOMAIN groups |-> entry(groups[k])]]

\* __init__
BenchmarksReport(data) ==
    LET self == [_data |-> data]
        ids == benchmark_ids(self)
    IN  [_data |-> data,
         _names |-> sorted(set([i \in DOMAIN ids |-> benchmark_name(self, ids[i])])),
         _modes |-> sorted(set([i \in DOMAIN ids |-> benchmark_mode(self, ids[i])]))]

report == [_data |-> _data, _names |-> _names, _modes |-> _modes]

(***************************************************************************)
(* matplotlib, as far as the renderers use it.                             *)
(***************************************************************************)
Axes ==
    [bars |-> <<>>, title |-> <<>>, ylabel |-> "", xlabel |-> "",
     ylim |-> <<0, 1>>, xticks |-> [ticks |-> <<>>, labels |-> <<>>, rotation |-> 0],
     legend |-> FALSE]

\* x + width * multiplier, elementwise on an arange
bar_positions(x, w, multiplier) ==
    [i \in DOMAIN x |-> float_add(float(x[i]), float_mul(w, multiplier))]

\* ax.bar(x, height, width=width, label=label): x and height are broadcast
\* against each other; shapes that do not broadcast raise ValueError
ax_bar(axes, x, height, w, label) ==
    LET n == Len(x)
        k == Len(height)
        m == IF n = 1 THEN k ELSE n
    IN  IF n = k \/ n = 1 \/ k = 1
        THEN Ok([axes EXCEPT !.bars = Append(@,
                    [label |-> label, width |-> w,
                     x |-> [j \in 1..m |-> x[IF n = 1 THEN 1 ELSE j]],
                     height |-> [j \in 1..m |-> height[IF k = 1 THEN 1 ELSE j]]])])
        ELSE Raise("ValueError")

\* the report data after list object obj has been given new items in place: only
\* a list that is one of the stored scenariosStatistics lists is part of the data
list_setitems(data, obj, items) ==
    IF obj[1] = "scenariosStatistics"
    THEN [i \in DOMAIN data |->
            IF data[i].key = obj[2]
            THEN [data[i] EXCEPT !.value.scenariosStatistics = items]
            ELSE data[i]]
    ELSE data

(***************************************************************************)
(* Inputs: the parsed JSON of a report.                                    *)
(***************************************************************************)
Foo == <<"F", "o", "o">>
Bar == <<"B", "a", "r">>
Bench == SubSeq(Benchmark, 1, 5)
mark == SubSeq(Benchmark, 6, 9)
NameParts == {Foo, Bench, mark, Benchmark}

RECURSIVE NamesOfParts(_)
NamesOfParts(k) ==
    IF k = 0 THEN {<<>>}
    ELSE NamesOfParts(k - 1) \cup {n \o p : n \in NamesOfParts(k - 1), p \in NameParts}

ModeMC == <<"m", "c">>
ModeHammer == <<"h", "a", "m", "m", "e", "r">>
Modes == {ModeMC, ModeHammer}

\* the JSON object whose k-th member, under key str(k), is built from fs[k]
JSONObject(fs) ==
    [i \in DOMAIN fs |->
        [key |-> <<"str", i>>,
         value |-> [id |-> <<"int", i>>, name |-> fs[i].name, mode |-> fs[i].mode,
                    runningTimeNano |-> fs[i].runningTimeNano,
                    scenariosStatistics |-> fs[i].scenariosStatistics]]]

JSONObjects(F, n) == UNION {{JSONObject(fs) : fs \in [1..k -> F]} : k \in 0..n}

RECURSIVE ListsOf(_, _)
ListsOf(S, n) ==
    IF n = 0 THEN {<<>>}
    ELSE ListsOf(S, n - 1) \cup {Append(l, e) : l \in ListsOf(S, n - 1), e \in S}

Stat(t, o, r, c) ==
    [threads |-> t, operations |-> o, runningTimeNano |-> r, invocationsCount |-> c]

\* the state after report = BenchmarksReport(data)
Loaded(data) ==
    /\ _data = BenchmarksReport(data)._data
    /\ _names = BenchmarksReport(data)._names
    /\ _modes = BenchmarksReport(data)._modes
    /\ loaded = BenchmarksReport(data)
    /\ pc = "idle"
    /\ op = [name |-> "__init__", args |-> <<>>]
    /\ ret = Ok(<<>>)
    /\ frame = <<>>
    /\ ax = Axes

(***************************************************************************)
(* Accessor queries: each is one call made while no renderer is running.   *)
(* No call catches an exception: one that is raised ends the program.      *)
(***************************************************************************)
Call(name, args, outcome) ==
    /\ pc = "idle"
    /\ op' = [name |-> name, args |-> args]
    /\ ret' = outcome
    /\ pc' = IF outcome.status = "ok" THEN "idle" ELSE "terminated"
    /\ UNCHANGED <<_data, _names, _modes, loaded, frame, ax>>

\* an id is passed as the key benchmark_ids() yields, or as the int of the record
Keys == set(benchmark_ids(report))
Ints == {<<"int", k[2]>> : k \in Keys}

\* names asked for: the display names of the report, and the bare name parts
NameArgs == set(benchmarks_names(report)) \cup {Foo, Bar}

call_benchmark_ids ==
    Call("benchmark_ids", <<>>, Ok(benchmark_ids(report)))

call_benchmarks_names ==
    Call("benchmarks_names", <<>>, Ok(benchmarks_names(report)))

call_benchmarks_modes ==
    Call("benchmarks_modes", <<>>, Ok(benchmarks_modes(report)))

call_benchmark_name(ids) ==
    \E bid \in ids :
        Call("benchmark_name", <<bid>>, Ok(benchmark_name(report, bid)))

call_benchmark_mode(ids) ==
    \E bid \in ids :
        Call("benchmark_mode", <<bid>>, Ok(benchmark_mode(report, bid)))

call_benchmark_id ==
    \E name \in NameArgs, mode \in Modes :
        Call("benchmark_id", <<name, mode>>, benchmark_id(report, name, mode))

call_benchmark_scenarios_stats(ids) ==
    \E bid \in ids :
        Call("benchmark_scenarios_stats", <<bid>>,
             Ok(benchmark_scenarios_stats(report, bid)))

call_benchmark_runtime(ids, units) ==
    \E bid \in ids, unit \in units :
        Call("benchmark_runtime", <<bid, unit>>,
             Ok(benchmark_runtime(report, bid, unit)))

call_benchmarks_runtime(units) ==
    \E unit \in units :
        Call("benchmarks_runtime", <<unit>>, Ok(benchmarks_runtime(report, unit)))

call_benchmarks_runtime_with_mode(units) ==
    \E mode \in Modes, unit \in units :
        Call("benchmarks_runtime_with_mode", <<mode, unit>>,
             Ok(benchmarks_runtime_with_mode(report, mode, unit)))

call_benchmark_average_runtime_by_scenario_params(ids, units) ==
    \E bid \in ids, unit \in units :
        Call("benchmark_average_runtime_by_scenario_params", <<bid, unit>>,
             Ok(benchmark_average_runtime_by_scenario_params(report, bid, unit).items))

(***************************************************************************)
(* as_time_unit, called as benchmark_runtime calls it: on the running time *)
(* of a record and a unit.                                                 *)
(***************************************************************************)
call_as_time_unit ==
    \E bid \in Keys, unit \in TimeUnit :
        LET nano_time == dict_get(_data, str(bid)).runningTimeNano
        IN  Call("as_time_unit", <<nano_time, unit>>,
                 Ok(as_time_unit_binary64(nano_time, unit)))

(***************************************************************************)
(* round_up_to, called on its own on the floats k/4.                       *)
(***************************************************************************)
call_round_up_to ==
    \E k \in 0..MaxRoundArg :
        Call("round_up_to", <<norm(k, 4), 10>>, Ok(round_up_to(norm(k, 4), 10)))

(***************************************************************************)
(* runtime_plot(ax, report), one step per iteration of its loop.           *)
(***************************************************************************)
width == [num |-> 1, den |-> 4]

runtime_plot_call ==
    /\ pc = "idle"
    /\ op' = [name |-> "runtime_plot", args |-> <<>>]
    /\ LET runtimes == dict_values(benchmarks_runtime(report, SEC))
       IN  IF runtimes = <<>>
           THEN /\ ret' = Raise("ValueError")
                /\ pc' = "terminated"
                /\ UNCHANGED <<frame, ax>>
           ELSE /\ ret' = [status |-> "running", value |-> <<>>]
                /\ pc' = "runtime_plot"
                /\ ax' = Axes
                /\ frame' = [multiplier |-> 0, time_unit |-> SEC,
                             max_runtime |-> max(runtimes),
                             x |-> np_arange(Len(benchmarks_names(report))),
                             i |-> 1]
    /\ UNCHANGED <<_data, _names, _modes, loaded>>

\* the bar series of the mode the loop is at
runtime_plot_bar ==
    LET mode == benchmarks_modes(report)[frame.i]
        data == dict_values(benchmarks_runtime_with_mode(report, mode, frame.time_unit))
    IN  ax_bar(ax, bar_positions(frame.x, width, frame.multiplier), data, width, mode)

runtime_plot_loop ==
    /\ pc = "runtime_plot"
    /\ frame.i <= Len(benchmarks_modes(report))
    /\ runtime_plot_bar.status = "ok"
    /\ ax' = runtime_plot_bar.value
    /\ frame' = [frame EXCEPT !.multiplier = @ + 1, !.i = @ + 1]
    /\ UNCHANGED <<_data, _names, _modes, loaded, pc, op, ret>>

runtime_plot_loop_raises ==
    /\ pc = "runtime_plot"
    /\ frame.i <= Len(benchmarks_modes(report))
    /\ runtime_plot_bar.status # "ok"
    /\ ret' = runtime_plot_bar
    /\ pc' = "terminated"
    /\ frame' = <<>>
    /\ UNCHANGED <<_data, _names, _modes, loaded, op, ax>>

runtime_plot_return ==
    /\ pc = "runtime_plot"
    /\ frame.i > Len(benchmarks_modes(report))
    /\ ax' = [ax EXCEPT
                !.title = <<"Benchmarks running time">>,
                !.ylabel = "time (s)",
                !.ylim = <<0, round_up_to(frame.max_runtime, 10)>>,
                !.xticks = [ticks |-> [i \in DOMAIN frame.x |->
                                          float_add(float(frame.x[i]), truediv(width, 2))],
                            labels |-> benchmarks_names(report),
                            rotation |-> 45],
                !.legend = TRUE]
    /\ ret' = Ok(<<>>)
    /\ pc' = "idle"
    /\ frame' = <<>>
    /\ UNCHANGED <<_data, _names, _modes, loaded, op>>

(***************************************************************************)
(* scenarios_average_runtime_plot(ax, report, benchmark_name), one step    *)
(* per iteration of its loop.                                              *)
(***************************************************************************)
scenarios_average_runtime_plot_call ==
    /\ pc = "idle"
    /\ \E name \in set(benchmarks_names(report)) :
        /\ op' = [name |-> "scenarios_average_runtime_plot", args |-> <<name>>]
        /\ frame' = [benchmark_name |-> name, multiplier |-> 0, time_unit |-> MILLI,
                     x |-> <<>>, params |-> <<>>, i |-> 1]
    /\ ret' = [status |-> "running", value |-> <<>>]
    /\ pc' = "scenarios_average_runtime_plot"
    /\ ax' = Axes
    /\ UNCHANGED <<_data, _names, _modes, loaded>>

\* the lookup that opens the loop body
scenarios_lookup ==
    benchmark_id(report, frame.benchmark_name, benchmarks_modes(report)[frame.i])

\* the loop body after a lookup that found benchmark_id: data, sorted in place,
\* the bars drawn from it, and its params
scenarios_body ==
    LET mode == benchmarks_modes(report)[frame.i]
        data == benchmark_average_runtime_by_scenario_params(
                    report, scenarios_lookup.value, frame.time_unit)
        items == sort_by_params(data.items)
        runtimes == [i \in DOMAIN items |-> items[i].avg_runtime]
        x == np_arange(Len(items))
    IN  [store |-> list_setitems(_data, data.obj, items),
         x |-> x,
         bar |-> ax_bar(ax, bar_positions(x, width, frame.multiplier), runtimes,
                        width, mode),
         scenario_params |-> [i \in DOMAIN items |-> items[i].params]]

scenarios_loop_lookup_raises ==
    /\ pc = "scenarios_average_runtime_plot"
    /\ frame.i <= Len(benchmarks_modes(report))
    /\ scenarios_lookup.status # "ok"
    /\ ret' = scenarios_lookup
    /\ pc' = "terminated"
    /\ frame' = <<>>
    /\ UNCHANGED <<_data, _names, _modes, loaded, op, ax>>

scenarios_loop ==
    /\ pc = "scenarios_average_runtime_plot"
    /\ frame.i <= Len(benchmarks_modes(report))
    /\ scenarios_lookup.status = "ok"
    /\ frame.params = <<>> \/ frame.params = scenarios_body.scenario_params
    /\ _data' = scenarios_body.store
    /\ ax' = scenarios_body.bar.value
    /\ frame' = [frame EXCEPT !.x = scenarios_body.x,
                              !.multiplier = @ + 1,
                              !.params = scenarios_body.scenario_params,
                              !.i = @ + 1]
    /\ UNCHANGED <<_names, _modes, loaded, pc, op, ret>>

scenarios_loop_assert_fails ==
    /\ pc = "scenarios_average_runtime_plot"
    /\ frame.i <= Len(benchmarks_modes(report))
    /\ scenarios_lookup.status = "ok"
    /\ ~(frame.params = <<>> \/ frame.params = scenarios_body.scenario_params)
    /\ _data' = scenarios_body.store
    /\ ax' = scenarios_body.bar.value
    /\ frame' = <<>>
    /\ ret' = Raise("AssertionError")
    /\ pc' = "terminated"
    /\ UNCHANGED <<_names, _modes, loaded, op>>

scenarios_average_runtime_plot_return ==
    /\ pc = "scenarios_average_runtime_plot"
    /\ frame.i > Len(benchmarks_modes(report))
    /\ ax' = [ax EXCEPT
                !.title = <<frame.benchmark_name,
                            "\nInvocation average running time by scenario size">>,
                !.ylabel = "time (ms)",
                !.xlabel = "(#threads, #operations)",
                !.xticks = [ticks |-> frame.x, labels |-> frame.params, rotation |-> 0],
                !.legend = TRUE]
    /\ ret' = Ok(<<>>)
    /\ pc' = "idle"
    /\ frame' = <<>>
    /\ UNCHANGED <<_data, _names, _modes, loaded, op>>

(***************************************************************************)
(* Specifications.  Each starts from a report loaded from one of a bounded *)
(* set of JSON inputs and then takes the calls named in its next-state     *)
(* relation, in any order.                                                 *)
(***************************************************************************)
E1 == Stat(1, 20, 100, 1)
E2 == Stat(2, 10, 300, 2)

Fields(names, modes, runtimes, stats) ==
    [name : names, mode : modes, runningTimeNano : runtimes, scenariosStatistics : stats]

Field(name, mode, runtime, stats) ==
    [name |-> name, mode |-> mode, runningTimeNano |-> runtime,
     scenariosStatistics |-> stats]

RuntimePlot ==
    \/ runtime_plot_call
    \/ runtime_plot_loop
    \/ runtime_plot_loop_raises
    \/ runtime_plot_return

ScenariosPlot ==
    \/ scenarios_average_runtime_plot_call
    \/ scenarios_loop_lookup_raises
    \/ scenarios_loop
    \/ scenarios_loop_assert_fails
    \/ scenarios_average_runtime_plot_return

\* the whole accessor and both renderers, the units left at their default
Init ==
    \E data \in JSONObjects(
            {Field(Foo \o Benchmark, ModeHammer, 1500000000, <<E1>>),
             Field(Foo \o Benchmark, ModeMC, 500000000, <<E2, E1>>),
             Field(Bar \o Benchmark, ModeHammer, 1500000000, <<E2, E1>>),
             Field(Bar \o Benchmark, ModeMC, 500000000, <<E2, E1>>),
             Field(mark \o Benchmark, ModeHammer, 0, <<>>)},
            MaxBenchmarks) :
        Loaded(data)

Next ==
    \/ call_benchmark_ids
    \/ call_benchmarks_names
    \/ call_benchmarks_modes
    \/ call_benchmark_name(Keys)
    \/ call_benchmark_mode(Keys)
    \/ call_benchmark_id
    \/ call_benchmark_scenarios_stats(Keys)
    \/ call_benchmark_runtime(Keys, {MILLI})
    \/ call_benchmarks_runtime({MILLI})
    \/ call_benchmarks_runtime_with_mode({MILLI})
    \/ call_benchmark_average_runtime_by_scenario_params(Keys, {MILLI})
    \/ RuntimePlot
    \/ ScenariosPlot

Spec == Init /\ [][Next]_vars

\* display names: one record, every stored name of up to MaxNameParts parts
InitNames ==
    \E data \in JSONObjects(
            Fields(NamesOfParts(MaxNameParts), {ModeMC}, {0}, {<<>>}), 1) :
        /\ data # <<>>
        /\ Loaded(data)

NextNames == call_benchmark_name(Keys \cup Ints) \/ call_benchmarks_names

SpecNames == InitNames /\ [][NextNames]_vars

\* lookups by (name, mode)
InitLookup ==
    \E data \in JSONObjects(
            Fields({Foo \o Benchmark, Bar \o Benchmark, Foo, Benchmark \o Foo \o Benchmark},
                   Modes, {0}, {<<>>}),
            MaxBenchmarks) :
        Loaded(data)

NextLookup ==
    \/ call_benchmark_ids
    \/ call_benchmark_name(Keys \cup Ints)
    \/ call_benchmark_mode(Keys \cup Ints)
    \/ call_benchmark_id

SpecLookup == InitLookup /\ [][NextLookup]_vars

\* one benchmark, every scenariosStatistics list of up to MaxStats entries
StatsEntries ==
    {Stat(p[1], p[2], rc[1], rc[2]) : p \in {<<1, 20>>, <<2, 5>>, <<2, 10>>},
                                      rc \in {<<100, 1>>, <<300, 1>>, <<100, 2>>}}

InitStats ==
    \E data \in JSONObjects(
            Fields({Foo \o Benchmark}, {ModeMC}, {0}, ListsOf(StatsEntries, MaxStats)), 1) :
        /\ data # <<>>
        /\ Loaded(data)

NextStats ==
    \/ call_benchmark_scenarios_stats(Keys)
    \/ call_benchmark_average_runtime_by_scenario_params(Keys, TimeUnit)

SpecStats == InitStats /\ [][NextStats]_vars

\* runtime_plot and the runtime queries it makes
InitRuntime ==
    \E data \in JSONObjects(
            Fields({Foo \o Benchmark, Bar \o Benchmark, mark \o Benchmark}, Modes,
                   {500000000, 1500000000}, {<<>>}),
            MaxBenchmarks) :
        Loaded(data)

NextRuntime ==
    \/ RuntimePlot
    \/ call_benchmarks_runtime({SEC})
    \/ call_benchmarks_runtime_with_mode({SEC})

SpecRuntime == InitRuntime /\ [][NextRuntime]_vars

\* round_up_to: on its own, and as runtime_plot calls it
InitRound ==
    \E data \in JSONObjects(
            {Field(Foo \o Benchmark, ModeMC, 0, <<>>),
             Field(Foo \o Benchmark, ModeMC, 1500000000, <<>>),
             Field(Bar \o Benchmark, ModeMC, 2000000000, <<>>),
             Field(mark \o Benchmark, ModeHammer, 0, <<>>)},
            MaxBenchmarks) :
        Loaded(data)

NextRound == RuntimePlot \/ call_round_up_to

SpecRound == InitRound /\ [][NextRound]_vars

\* as_time_unit, in binary64: the running times are the multiples up to
\* MaxNano of 1 ns, of 1 us, of a number near 1 ms and of one near 2^31 / MaxNano
NanoTimes == {k * s : k \in 0..MaxNano, s \in {1, 1000, 1000003, 8388607}}

InitUnits ==
    \E n \in NanoTimes :
        Loaded(JSONObject(<<Field(Foo \o Benchmark, ModeMC, n, <<>>)>>))

SpecUnits == InitUnits /\ [][call_as_time_unit]_vars

\* scenarios_average_runtime_plot
InitScenarios ==
    \E data \in JSONObjects(
            Fields({Foo \o Benchmark, Bar \o Benchmark}, Modes, {0},
                   {<<>>, <<E1>>, <<E2, E1>>}),
            MaxBenchmarks) :
        Loaded(data)

SpecScenarios == InitScenarios /\ [][ScenariosPlot]_vars

(***************************************************************************)
(* Properties.                                                             *)
(***************************************************************************)
StoredName(bid) == dict_get(_data, str(bid)).name

StatsOf(bid) == dict_get(_data, str(bid)).scenariosStatistics

KeyOf(e) == <<e.threads, e.operations>>

KeysOf(stats) == {KeyOf(stats[i]) : i \in DOMAIN stats}

removesuffix(s, suffix) ==
    IF Len(suffix) <= Len(s) /\ SubSeq(s, Len(s) - Len(suffix) + 1, Len(s)) = suffix
    THEN SubSeq(s, 1, Len(s) - Len(suffix))
    ELSE s

RECURSIVE SumAt(_, _)
SumAt(f, I) ==
    IF I = {} THEN 0
    ELSE LET i == CHOOSE i \in I : TRUE IN f[i] + SumAt(f, I \ {i})

\* sum(runningTimeNano) / sum(invocationsCount) over ALL entries of stats with
\* the key, in the unit
AverageOverKey(stats, key, unit) ==
    LET I == {i \in DOMAIN stats : KeyOf(stats[i]) = key}
        runtime == SumAt([i \in DOMAIN stats |-> stats[i].runningTimeNano], I)
        invocations == SumAt([i \in DOMAIN stats |-> stats[i].invocationsCount], I)
    IN  truediv(truediv(float(runtime), invocations), unit)

\* entries of equal key are next to each other
Contiguous(stats) ==
    \A i, j, k \in DOMAIN stats :
        (i < j /\ j < k /\ KeyOf(stats[i]) = KeyOf(stats[k])) => KeyOf(stats[j]) = KeyOf(stats[i])

\* entries are in ascending (non-decreasing) order of key
Ascending(stats) ==
    \A i, j \in DOMAIN stats : i < j => ~tuple_lt(KeyOf(stats[j]), KeyOf(stats[i]))

AfterAverage ==
    op.name = "benchmark_average_runtime_by_scenario_params" /\ ret.status = "ok"

\* C1 as claimed: for every order of the scenario entries, each returned entry's
\* avg_runtime is the sum of runningTimeNano over all entries with its key divided
\* by the sum of their invocationsCount, in the requested unit.
C1_AverageOverAllEntries ==
    AfterAverage =>
        \A k \in DOMAIN ret.value :
            ret.value[k].avg_runtime =
                AverageOverKey(StatsOf(op.args[1]), ret.value[k].params, op.args[2])

\* C1 as amended: the same, for the inputs whose entries of equal key are next to
\* each other (sorted inputs among them).
C1_AverageWhenContiguous ==
    (AfterAverage /\ Contiguous(StatsOf(op.args[1]))) =>
        \A k \in DOMAIN ret.value :
            ret.value[k].avg_runtime =
                AverageOverKey(StatsOf(op.args[1]), ret.value[k].params, op.args[2])

\* two entries for threads=2, operations=10 with 100 ns and 300 ns and one
\* invocation each, and an entry of another key: 0.0002 ms
C1_Witness ==
    /\ AfterAverage
    /\ op.args[2] = MILLI
    /\ StatsOf(op.args[1]) = <<Stat(1, 20, 100, 2), Stat(2, 10, 100, 1), Stat(2, 10, 300, 1)>>
    /\ ret.value[2] = [params |-> <<2, 10>>, avg_runtime |-> [num |-> 1, den |-> 5000]]

\* C4 as claimed: for every order of the scenario entries, the returned list is in
\* ascending order of key and has exactly one entry per distinct key.
C4_AscendingOnePerKey ==
    AfterAverage =>
        /\ {ret.value[k].params : k \in DOMAIN ret.value} = KeysOf(StatsOf(op.args[1]))
        /\ \A i, j \in DOMAIN ret.value :
              i < j => tuple_lt(ret.value[i].params, ret.value[j].params)

\* C4 as amended: every key present has an entry and no other key has; when the
\* scenario entries are in ascending order of key, the returned list is in
\* ascending order of key with exactly one entry per distinct key.
C4_AscendingWhenInputAscending ==
    AfterAverage =>
        /\ {ret.value[k].params : k \in DOMAIN ret.value} = KeysOf(StatsOf(op.args[1]))
        /\ Ascending(StatsOf(op.args[1])) =>
              \A i, j \in DOMAIN ret.value :
                  i < j => tuple_lt(ret.value[i].params, ret.value[j].params)

C4_Witness ==
    /\ AfterAverage
    /\ Len(StatsOf(op.args[1])) = 3
    /\ Ascending(StatsOf(op.args[1]))
    /\ Cardinality(KeysOf(StatsOf(op.args[1]))) = 2
    /\ Len(ret.value) = 2

\* C3 as claimed: benchmark_name returns the stored name with exactly the trailing
\* "Benchmark" removed and every other character kept.
C3_StripsSuffixOnly ==
    (op.name = "benchmark_name" /\ ret.status = "ok") =>
        ret.value = removesuffix(StoredName(op.args[1]), Benchmark)

NoMatch(name, mode) ==
    \A i \in DOMAIN _data :
        ~(_data[i].value.name = name \o Benchmark /\ _data[i].value.mode = mode)

\* C2: benchmark_id(name, mode), when no record has the stored name
\* name + "Benchmark" and that mode, ends in StopIteration, returns no id and
\* leaves the report as it was loaded.
C2_LookupOfAbsentPairFails ==
    (op.name = "benchmark_id" /\ NoMatch(op.args[1], op.args[2])) =>
        /\ ret.status = "StopIteration"
        /\ pc = "terminated"
        /\ report = loaded

\* a lookup that fails although the name is in the report, under another mode
C2_Witness ==
    /\ op.name = "benchmark_id"
    /\ NoMatch(op.args[1], op.args[2])
    /\ \E i \in DOMAIN _data : _data[i].value.name = op.args[1] \o Benchmark
    /\ ret.status = "StopIteration"

UniquePairs ==
    \A a, b \in Keys :
        (benchmark_name(report, a) = benchmark_name(report, b)
            /\ benchmark_mode(report, a) = benchmark_mode(report, b)) => a = b

\* C9 as claimed: for every id b of the report,
\* benchmark_id(benchmark_name(b), benchmark_mode(b)) succeeds and returns the id
\* of a record with b's display name and mode, and b itself when the
\* (name, mode) pairs of the report are unique.
C9_LookupInvertsDisplayName ==
    \A b \in Keys :
        (/\ op.name = "benchmark_id"
         /\ op.args = <<benchmark_name(report, b), benchmark_mode(report, b)>>) =>
            /\ ret.status = "ok"
            /\ benchmark_name(report, ret.value) = benchmark_name(report, b)
            /\ benchmark_mode(report, ret.value) = benchmark_mode(report, b)
            /\ UniquePairs => str(ret.value) = b

\* what a query returns on the report as it was loaded
OnLoaded ==
    CASE op.name = "benchmark_ids" -> Ok(benchmark_ids(loaded))
      [] op.name = "benchmarks_names" -> Ok(benchmarks_names(loaded))
      [] op.name = "benchmarks_modes" -> Ok(benchmarks_modes(loaded))
      [] op.name = "benchmark_name" -> Ok(benchmark_name(loaded, op.args[1]))
      [] op.name = "benchmark_mode" -> Ok(benchmark_mode(loaded, op.args[1]))
      [] op.name = "benchmark_id" -> benchmark_id(loaded, op.args[1], op.args[2])
      [] op.name = "benchmark_scenarios_stats" ->
            Ok(benchmark_scenarios_stats(loaded, op.args[1]))
      [] op.name = "benchmark_runtime" ->
            Ok(benchmark_runtime(loaded, op.args[1], op.args[2]))
      [] op.name = "benchmarks_runtime" -> Ok(benchmarks_runtime(loaded, op.args[1]))
      [] op.name = "benchmarks_runtime_with_mode" ->
            Ok(benchmarks_runtime_with_mode(loaded, op.args[1], op.args[2]))
      [] op.name = "benchmark_average_runtime_by_scenario_params" ->
            Ok(benchmark_average_runtime_by_scenario_params(
                   loaded, op.args[1], op.args[2]).items)
      [] OTHER -> ret

\* C5: after any sequence of accessor queries and renderer steps, the in-place
\* sort of the renderer included, the report is as it was loaded, and every query
\* returns what it returns on the report as loaded (so a repeated query returns
\* what it returned the first time).
C5_ReportUnchanged ==
    /\ report = loaded
    /\ ret = OnLoaded

\* a renderer call that has completed after sorting, in place, a result that
\* was not in ascending order, followed by a query
C5_Witness ==
    /\ op.name = "benchmark_scenarios_stats"
    /\ ret.value = <<E2, E1>>
    /\ ax.xticks.labels = <<<<1, 20>>, <<2, 10>>>>
    /\ Len(ax.bars) = 2

PlotDone(name) == op.name = name /\ ret.status = "ok" /\ pc = "idle"

\* the records with the display name and the mode
RecordsOf(name, mode) ==
    {b \in Keys : benchmark_name(report, b) = name /\ benchmark_mode(report, b) = mode}

\* every (name, mode) pair has exactly one record
CompleteReport ==
    \A i \in DOMAIN _names, j \in DOMAIN _modes :
        Cardinality(RecordsOf(_names[i], _modes[j])) = 1

\* C7 as claimed (stated for the reports that have exactly one record per name
\* and mode): after runtime_plot, for every mode m and every index i the i-th bar
\* drawn for m is as high as the running time, in seconds, of the benchmark of
\* mode m whose display name is the i-th tick label; one bar per name.
C7_BarsMatchTickLabels ==
    (PlotDone("runtime_plot") /\ CompleteReport) =>
        /\ ax.xticks.labels = _names
        /\ Len(ax.bars) = Len(_modes)
        /\ \A j \in DOMAIN _modes :
              /\ ax.bars[j].label = _modes[j]
              /\ Len(ax.bars[j].height) = Len(_names)
              /\ \A i \in DOMAIN _names :
                    \E b \in RecordsOf(_names[i], _modes[j]) :
                        ax.bars[j].height[i] = benchmark_runtime(report, b, SEC)

NextMultipleOfTen(n, limit) ==
    /\ limit % 10 = 0
    /\ n.num <= limit * n.den
    /\ limit * n.den < n.num + 10 * n.den

MaxRuntime == max(dict_values(benchmarks_runtime(report, SEC)))

\* C8 as claimed: round_up_to(max_runtime, 10), the upper y limit runtime_plot
\* sets, is a multiple of 10, at least max_runtime, less than max_runtime + 10,
\* and greater than 0.
C8_LimitIsNextPositiveMultiple ==
    /\ op.name = "round_up_to" =>
          NextMultipleOfTen(op.args[1], ret.value) /\ ret.value > 0
    /\ PlotDone("runtime_plot") =>
          /\ ax.ylim[1] = 0
          /\ NextMultipleOfTen(MaxRuntime, ax.ylim[2]) /\ ax.ylim[2] > 0

\* C8 as amended: it is a multiple of 10, at least max_runtime and less than
\* max_runtime + 10; it is greater than 0 exactly when max_runtime is, and 0 when
\* max_runtime is 0.
C8_LimitIsNextMultiple ==
    /\ op.name = "round_up_to" =>
          /\ NextMultipleOfTen(op.args[1], ret.value)
          /\ ret.value > 0 <=> op.args[1].num > 0
    /\ PlotDone("runtime_plot") =>
          /\ ax.ylim[1] = 0
          /\ NextMultipleOfTen(MaxRuntime, ax.ylim[2])
          /\ ax.ylim[2] > 0 <=> MaxRuntime.num > 0

\* runtime_plot has set the limits (0, 10) for a maximum of 2 s
C8_Witness ==
    /\ PlotDone("runtime_plot")
    /\ MaxRuntime = [num |-> 2, den |-> 1]
    /\ ax.ylim = <<0, 10>>

\* the sorted keys the loop of scenarios_average_runtime_plot gets for the mode
KeysYielded(name, mode) ==
    LET bid == benchmark_id(report, name, mode).value
        data == sort_by_params(
                    benchmark_average_runtime_by_scenario_params(report, bid, MILLI).items)
    IN  [i \in DOMAIN data |-> data[i].params]

\* C10 as claimed: when scenarios_average_runtime_plot completes without an
\* error, every mode yielded the same sorted list of keys, that list is the tick
\* labels, and there is one tick position per key.
C10_CompletesOnlyWhenModesAgree ==
    PlotDone("scenarios_average_runtime_plot") =>
        /\ \A j \in DOMAIN _modes :
              KeysYielded(op.args[1], _modes[j]) = ax.xticks.labels
        /\ Len(ax.xticks.ticks) = Len(ax.xticks.labels)

\* a float's significand in units of 2^e, for e its exponent or one less, as
\* two ints: value = hi * Limb + lo
Limb == 2 ^ 27

Scaled(x, e) ==
    LET k == 2 ^ (x.exp - e)
        h == int_of(SubSeq(x.sig, 1, Precision - 27))
        l == int_of(SubSeq(x.sig, Precision - 26, Precision))
    IN  [hi |-> h * k + (l * k) \div Limb, lo |-> (l * k) % Limb]

\* the floats x and y differ by at most one unit in the last place of y, which
\* is a relative error of at most 2^-52
WithinOneUlp(x, y) ==
    IF x.sig = <<>> \/ y.sig = <<>> THEN x = y
    ELSE LET e == IF x.exp < y.exp THEN x.exp ELSE y.exp
             a == Scaled(x, e)
             b == Scaled(y, e)
             d == (a.hi - b.hi) * Limb + (a.lo - b.lo)
         IN  /\ x.exp - y.exp \in {-1, 0, 1}
             /\ a.hi - b.hi \in -2..2
             /\ d <= 2 ^ (y.exp - e)
             /\ -d <= 2 ^ (y.exp - e)

\* C6: for every running time n (an int of nanoseconds, n >= 0) and every
\* TimeUnit u, the float as_time_unit(n, u) multiplied back by u is float(n) up
\* to rounding error: it is at most one unit in the last place away from it, a
\* relative error of at most 2^-52, which is within every tolerance in use for
\* comparing floats.
C6_RoundTripWithinTolerance ==
    op.name = "as_time_unit" =>
        WithinOneUlp(binary64_mul(ret.value, op.args[2]), binary64(op.args[1]))

\* 15 ns in seconds is the float 0x1.01b2b29a4692bp-26, and that times 10^9 is
\* not 15.0 but the float just below it
C6_Witness ==
    /\ op.name = "as_time_unit"
    /\ op.args = <<15, SEC>>
    /\ ret.value.exp = -78
    /\ Scaled(ret.value, -78) = [hi |-> 33776997, lo |-> 27552043]
    /\ binary64_mul(ret.value, SEC) # binary64(15)
    /\ binary64_mul(ret.value, SEC) =
           [sig |-> <<1, 1, 1>> \o zeros(1) \o [i \in 1..49 |-> 1], exp |-> -49]

====
